---- MODULE Spec2Model ----
(***************************************************************************)
(* A model of the deployment pipeline of Chainlink-Plug-and-Play:          *)
(*   deploy/helpers/extractAddress.js   the address extractor              *)
(*   deploy/helpers/updateEnvFile.js    the environment store              *)
(*   deploy/deploy.js, deploy/modules/*, deploy/automation/*  the pipeline *)
(*                                                                         *)
(* Texts are sequences of tokens.  Each token stands for a fixed piece of  *)
(* text, chosen so that no pattern of the code can match across a token    *)
(* boundary other than in the way the operators below describe:            *)
(*   "CA"   Contract Address:_        "DT"  Deployed to:_                   *)
(*   "DA"   deployed at:_             "DAU" DEPLOYED AT:_ (another case)    *)
(*   "DS"   DStock_                   "TU"  Test_USDC_                      *)
(*   "LOGS" == Logs ==                "SV"  Start verifying contract `      *)
(*   "BT"   `        "NL" line feed   "SP"  a blank                         *)
(*   "A1"   0x followed by exactly 40 hex digits                           *)
(*   "H"    the hex digit f           "UX"  the letter X (upper case)      *)
(***************************************************************************)
EXTENDS Integers, Sequences, FiniteSets, TLC

VARIABLES
  output,     \* extractor: the text given to extractAddressFromForgeOutput
  extracted,  \* extractor: its result
  fs,         \* the files: fs.env is <envPath>, fs.tmp is <envPath>.tmp
  penv,       \* process.env of the running process
  upc,        \* updateEnvFile: the statement about to run
  ukey,       \* updateEnvFile: parameter key
  uval,       \* updateEnvFile: parameter value
  ucreate,    \* updateEnvFile: options.createIfMissing
  buf,        \* updateEnvFile: the local envContent
  uresult,    \* updateEnvFile: how the last call ended
  uerr,       \* updateEnvFile: the error raised in the current call
  crashed,    \* the process died inside updateEnvFile, at upc
  orig,       \* history: fs and penv when the current call began
  calls,      \* history: the number of calls made so far
  ppc,        \* deploy.js: the step about to run
  opts,       \* deploy.js: options.functions, options.automation
  missing,    \* the required variables that process.env does not set
  exitCode,   \* the exit code of deploy.js, -1 while it runs
  cpc,        \* registerAutomation.js (the child process): the step about to run
  cenv,       \* process.env of the child process
  chain,      \* what the transactions of this run did on chain
  said,       \* what the processes printed
  uploadOut,  \* what the secrets-upload subprocess printed
  errNames,   \* the variables the error message of validateConfig names
  trace,      \* history: the steps started, in order
  failed,     \* history: the steps that failed
  ex,         \* executeCommand: one call, its subprocess and its promise
  got,        \* getEnvVar: the last read, its key, default and result
  sync        \* history: how the file's value of each key reached process.env

extractVars == <<output, extracted>>

envVars == <<fs, penv, upc, ukey, uval, ucreate, buf, uresult, uerr, crashed,
             orig, calls>>

storeLocals == <<upc, ukey, uval, ucreate, buf, uresult, uerr, crashed, orig, calls>>

pipeVars == <<ppc, opts, missing, exitCode, cpc, cenv, chain, said, uploadOut, errNames,
              trace, failed>>

sideVars == <<ex, got, sync>>

vars == <<output, extracted, fs, penv, upc, ukey, uval, ucreate, buf, uresult,
          uerr, crashed, orig, calls, ppc, opts, missing, exitCode, cpc, cenv,
          chain, said, uploadOut, errNames, trace, failed, ex, got, sync>>

\* ------------------------------------------------------------------ bounds

\* Longest forge output, in tokens, given to the extractor.
MaxLen == 4

\* Most lines of the environment file a run of the store starts from.
MaxLines == 2

\* Most updateEnvFile calls in one run of the store.
MaxCalls == 2

\* Longest output of the forge subprocess, in tokens, in a pipeline run (a few
\* longer outputs are added by name).
MaxOut == 2

\* Most required variables that process.env lacks when deploy.js starts.
MaxMissing == 1

\* ------------------------------------------------------------ small helpers

Max(S) == CHOOSE x \in S : \A y \in S : y <= x

Min(S) == CHOOSE x \in S : \A y \in S : x <= y

SeqsUpTo(S, n) == UNION {[1..k -> S] : k \in 0..n}

\* ------------------------------------------------- extractAddress.js

Tokens == {"CA", "DT", "DA", "DS", "TU", "LOGS", "SV", "BT", "NL", "A1", "H", "UX"}

\* Texts with the two other tokens, the label in another case and the blank.
OtherTexts ==
  { << "DAU", "UX" >>, << "DS", "DAU", "A1" >>, << "LOGS", "SP", "A1" >>,
    << "LOGS", "SP", "NL", "SP", "A1", "H" >>, << "CA", "SP", "A1" >> }

\* [0-9a-fA-Fx] : every character of "A1" (0x and hex digits) and of "H".
HexClass == {"A1", "H"}

\* The same class under the i flag also accepts the upper-case X.
HexClassI == {"A1", "H", "UX"}

\* \s
Whitespace == {"NL", "SP"}

\* The ordered pattern list.  A "label" pattern is a literal (pre: one set of
\* accepted tokens per position; the i flag widens the sets) followed by a
\* greedy, non-empty run of the class, which is the capture group.
addressPatterns ==
  << [kind |-> "label",  pre |-> << {"CA"} >>,                 class |-> HexClass],
     [kind |-> "label",  pre |-> << {"DT"} >>,                 class |-> HexClass],
     [kind |-> "label",  pre |-> << {"DA", "DAU"} >>,          class |-> HexClassI],
     [kind |-> "label",  pre |-> << {"DS"}, {"DA", "DAU"} >>,  class |-> HexClassI],
     [kind |-> "label",  pre |-> << {"TU"}, {"DA", "DAU"} >>,  class |-> HexClassI],
     [kind |-> "logs",   pre |-> << {"LOGS"} >>,               class |-> {"A1"}],
     [kind |-> "verify", pre |-> << {"SV"} >>,                 class |-> {"A1"}] >>

\* The greedy run of class tokens of text that starts at position i.
Run(text, i, class) ==
  LET ends == {j \in i..Len(text) : \A k \in i..j : text[k] \in class}
  IN  IF ends = {} THEN << >> ELSE SubSeq(text, i, Max(ends))

PreAt(p, text, i) ==
  \A k \in 1..Len(p.pre) :
     /\ i + k - 1 <= Len(text)
     /\ text[i + k - 1] \in p.pre[k]

\* The position of the capture group when pattern p matches text at i, 0 if
\* it does not match there.
GroupAt(p, text, i) ==
  IF ~PreAt(p, text, i) THEN 0
  ELSE
    LET g == i + Len(p.pre)
    IN  CASE p.kind = "label" ->
               IF g <= Len(text) /\ text[g] \in p.class THEN g ELSE 0
          [] p.kind = "logs" ->
               \* \s*\n\s* : a run of white space holding a line feed, then
               \* 0x and 40 hex digits
               LET js == {j \in g + 1..Len(text) :
                            /\ text[j] = "A1"
                            /\ \A k \in g..j - 1 : text[k] \in Whitespace
                            /\ \E k \in g..j - 1 : text[k] = "NL"}
               IN  IF js = {} THEN 0 ELSE Min(js)
          [] p.kind = "verify" ->
               IF /\ g + 1 <= Len(text)
                  /\ text[g] = "A1"
                  /\ text[g + 1] = "BT"
               THEN g ELSE 0

\* A capture that keeps a well-formed address only.
GroupTextValidated(p, text, g) ==
  IF text[g] = "A1" THEN << "A1" >> ELSE << >>

\* The first capture group at that position.
GroupText(p, text, g) ==
  IF p.kind = "label" THEN Run(text, g, p.class) ELSE << text[g] >>

NotFound == [found |-> FALSE, addr |-> << >>]

\* No result yet.
Pending == [found |-> FALSE, addr |-> << "pending" >>]

\* A match that takes the rightmost occurrence.
MatchRightmost(p, text) ==
  LET at == {i \in 1..Len(text) : GroupAt(p, text, i) # 0}
  IN  IF at = {} THEN NotFound
      ELSE [found |-> TRUE, addr |-> GroupText(p, text, GroupAt(p, text, Max(at)))]

\* output.match(pattern): the leftmost match; match[1] is its capture group.
Match(p, text) ==
  LET at == {i \in 1..Len(text) : GroupAt(p, text, i) # 0}
  IN  IF at = {} THEN NotFound
      ELSE [found |-> TRUE, addr |-> GroupText(p, text, GroupAt(p, text, Min(at)))]

\* ------------------------------------------------- updateEnvFile.js
\* A text file is the sequence content.split("\n"): its lines, the last
\* element being what follows the last line feed (the empty line when the
\* content ends with a line feed; the empty content is one empty line).
\* A line is one of
\*   def  KEY=value            at the start of the line
\*   exp  export KEY=value     export, blanks or tabs, KEY=value
\*   ind  KEY=value            after leading blanks
\*   kw   export               the bare word, nothing or blanks after it
\*   blank                     the empty line
\*   cmt  # ...                a comment
\* Values are token sequences with no line feed and no $ in them.

Missing == << >>

NoKey == ""

NoVal == << >>

Line(kind, key, val) == [kind |-> kind, key |-> key, val |-> val]

Blank == Line("blank", NoKey, NoVal)

Comment == Line("cmt", NoKey, NoVal)

Keyword == Line("kw", NoKey, NoVal)

\* "# Environment Variables\n"
HeaderContent == << Comment, Blank >>

Keys == {"CONTRACT_ADDRESS", "FUNCTIONS_SECRETS_VERSION", "AUTOMATION_FORWARDER_ADDRESS"}

\* The keys the runs of the store by itself write.
CallKeys == {"CONTRACT_ADDRESS", "FUNCTIONS_SECRETS_VERSION"}

OldVal == << "H" >>

NewVals == { << "A1" >>, << "A1", "H" >> }

Unset == << "unset" >>

\* The lines a file may hold before the store first touches it.
FileLines ==
  { Line("def", "CONTRACT_ADDRESS", OldVal),
    Line("exp", "CONTRACT_ADDRESS", OldVal),
    Line("ind", "CONTRACT_ADDRESS", OldVal),
    Line("def", "FUNCTIONS_SECRETS_VERSION", OldVal),
    Keyword, Blank }

InitialContents == UNION {[1..k -> FileLines] : k \in 1..MaxLines}

\* new RegExp(`^export\\s+${key}=.*`, "m"): the places [from, to] of the lines
\* a match starting at line `from` covers.  \s+ also matches line feeds, so the
\* bare word `export` matches together with the next line that is not empty
\* when that line is KEY=..., indented or not.
ExportMatchEnd(content, key, i) ==
  IF content[i].kind = "exp" /\ content[i].key = key THEN i
  ELSE IF content[i].kind # "kw" THEN 0
  ELSE LET js == {j \in i + 1..Len(content) :
                    /\ content[j].kind \in {"def", "ind"}
                    /\ content[j].key = key
                    /\ \A k \in i + 1..j - 1 : content[k].kind = "blank"}
       IN  IF js = {} THEN 0 ELSE Min(js)

ExportMatches(content, key) ==
  {i \in 1..Len(content) : ExportMatchEnd(content, key, i) # 0}

\* new RegExp(`^${key}=.*`, "m")
RegularMatches(content, key) ==
  {i \in 1..Len(content) : content[i].kind = "def" /\ content[i].key = key}

\* A replacement that puts the new line after the old ones.
InsertAfter(content, from, to, line) ==
  SubSeq(content, 1, to) \o << line >> \o SubSeq(content, to + 1, Len(content))

\* content.replace(regex, newLine) for a match covering lines from..to: the
\* leftmost match only (the patterns carry no g flag).
ReplaceLines(content, from, to, line) ==
  SubSeq(content, 1, from - 1) \o << line >> \o SubSeq(content, to + 1, Len(content))

\* An append that never checks for the final line feed.
AlwaysEndsWithNewline(content) == TRUE

\* envContent.endsWith("\n")
EndsWithNewline(content) ==
  Len(content) >= 2 /\ content[Len(content)].kind = "blank"

\* envContent += s + "\n" where s has no line feed and the content ends with
\* a line feed or is empty.
AppendLine(content, line) ==
  SubSeq(content, 1, Len(content) - 1) \o << line, Blank >>

\* The new content of the file: replace the export line, else the regular
\* line, else append.
Substitute(content, key, value) ==
  LET newLine == Line("exp", key, value)
      em == ExportMatches(content, key)
      rm == RegularMatches(content, key)
  IN  IF em # {}
      THEN ReplaceLines(content, Min(em), ExportMatchEnd(content, key, Min(em)), newLine)
      ELSE IF rm # {}
      THEN ReplaceLines(content, Min(rm), Min(rm), newLine)
      ELSE AppendLine(IF EndsWithNewline(content) THEN content
                      ELSE content \o << Blank >>, newLine)

\* No executeCommand call, no getEnvVar read, no key of the file in process.env.
ExecIdle == [pc |-> "idle", how |-> "none", code |-> -1, stdout |-> << >>,
             stderr |-> << >>, promise |-> "none", value |-> << >>, settles |-> 0]

NoGot == [key |-> NoKey, default |-> NoVal, val |-> NoVal]

NoSync == [k \in Keys |-> "none"]

SideIdle == ex = ExecIdle /\ got = NoGot /\ sync = NoSync

\* The pipeline before it starts, for the runs of the helpers by themselves.
NoChain == [upkeep |-> NoVal, created |-> NoVal, forwarder |-> NoVal,
            target |-> NoVal, consumer |-> NoVal]

PipeIdle ==
  /\ ppc = "off"
  /\ opts = [functions |-> FALSE, automation |-> FALSE]
  /\ missing = {}
  /\ exitCode = -1
  /\ cpc = "off"
  /\ cenv = [k \in Keys |-> Unset]
  /\ chain = NoChain
  /\ said = {}
  /\ uploadOut = << >>
  /\ errNames = {}
  /\ trace = << >>
  /\ failed = {}
  /\ SideIdle

\* ---- updateEnvFile, statement by statement

\* writeFileSync's target: tempPath = `${envPath}.tmp`, not envPath itself.
WritePathDirect == "env"

WritePath == "tmp"

\* A try block that opens only after the file was read.
InTryAfterRead(pc) == pc \in {"subst", "open", "write", "rename", "setenv"}

\* The statements inside try { ... } catch: all of them.
InTry(pc) == pc \in {"exists", "read", "subst", "open", "write", "rename", "setenv"}

EnvIdle ==
  /\ fs = [env |-> Missing, tmp |-> Missing]
  /\ penv = [k \in Keys |-> Unset]
  /\ upc = "idle"
  /\ ukey = NoKey
  /\ uval = NoVal
  /\ ucreate = TRUE
  /\ buf = Missing
  /\ uresult = "none"
  /\ uerr = "none"
  /\ crashed = FALSE
  /\ orig = [fs |-> [env |-> Missing, tmp |-> Missing], penv |-> [k \in Keys |-> Unset]]
  /\ calls = 0

EnvInit ==
  /\ output = << >>
  /\ extracted = Pending
  /\ fs \in [env : InitialContents \cup {Missing}, tmp : {Missing}]
  /\ penv = [k \in Keys |-> Unset]
  /\ upc = "idle"
  /\ ukey = NoKey
  /\ uval = NoVal
  /\ ucreate = TRUE
  /\ buf = Missing
  /\ uresult = "none"
  /\ uerr = "none"
  /\ crashed = FALSE
  /\ orig = [fs |-> fs, penv |-> penv]
  /\ calls = 0
  /\ PipeIdle

\* An exception raised by the statement at upc: caught when inside the try
\* block, thrown to the caller otherwise.
Raise(error) ==
  /\ uerr' = error
  /\ IF InTry(upc)
     THEN /\ upc' = "caught"
          /\ UNCHANGED <<uresult, calls>>
     ELSE /\ upc' = "idle"
          /\ uresult' = "threw"
          /\ calls' = calls + 1

\* The values of options.createIfMissing to try: the option is read only when
\* the file does not exist.
CreateOptions == IF fs.env = Missing THEN BOOLEAN ELSE {TRUE}

\* updateEnvFile(key, value, { createIfMissing })
Call(k, v, c) ==
  /\ upc = "idle" /\ ~crashed
  /\ calls < MaxCalls
  /\ ukey' = k /\ uval' = v /\ ucreate' = c
  /\ buf' = Missing
  /\ uresult' = "running"
  /\ uerr' = "none"
  /\ orig' = [fs |-> fs, penv |-> penv]
  /\ upc' = "exists"
  /\ UNCHANGED <<fs, penv, crashed, calls>>
  /\ UNCHANGED extractVars
  /\ UNCHANGED pipeVars
  /\ UNCHANGED sideVars

\* if (fs.existsSync(envPath)) ... else if (createIfMissing) ... else throw
ExistsCheck ==
  /\ upc = "exists" /\ ~crashed
  /\ IF fs.env # Missing
     THEN upc' = "read" /\ UNCHANGED <<buf, uresult, uerr, calls>>
     ELSE IF ucreate
     THEN upc' = "subst" /\ buf' = HeaderContent /\ UNCHANGED <<uresult, uerr, calls>>
     ELSE Raise("not found") /\ UNCHANGED buf
  /\ UNCHANGED <<fs, penv, ukey, uval, ucreate, crashed, orig>>
  /\ UNCHANGED extractVars
  /\ UNCHANGED pipeVars
  /\ UNCHANGED sideVars

\* envContent = fs.readFileSync(envPath, "utf8")
ReadFile ==
  /\ upc = "read" /\ ~crashed
  /\ buf' = fs.env
  /\ upc' = "subst"
  /\ UNCHANGED <<fs, penv, ukey, uval, ucreate, uresult, uerr, crashed, orig, calls>>
  /\ UNCHANGED extractVars
  /\ UNCHANGED pipeVars
  /\ UNCHANGED sideVars

ReadFileFails ==
  /\ upc = "read" /\ ~crashed
  /\ Raise("read")
  /\ UNCHANGED <<fs, penv, ukey, uval, ucreate, buf, crashed, orig>>
  /\ UNCHANGED extractVars
  /\ UNCHANGED pipeVars
  /\ UNCHANGED sideVars

\* the regex substitution or the append
SubstituteStep ==
  /\ upc = "subst" /\ ~crashed
  /\ buf' = Substitute(buf, ukey, uval)
  /\ upc' = "open"
  /\ UNCHANGED <<fs, penv, ukey, uval, ucreate, uresult, uerr, crashed, orig, calls>>
  /\ UNCHANGED extractVars
  /\ UNCHANGED pipeVars
  /\ UNCHANGED sideVars

\* fs.writeFileSync(tempPath, envContent), first half: the file is created
\* or truncated
WriteOpen ==
  /\ upc = "open" /\ ~crashed
  /\ fs' = [fs EXCEPT ![WritePath] = << Blank >>]
  /\ upc' = "write"
  /\ UNCHANGED <<penv, ukey, uval, ucreate, buf, uresult, uerr, crashed, orig, calls>>
  /\ UNCHANGED extractVars
  /\ UNCHANGED pipeVars
  /\ UNCHANGED sideVars

WriteOpenFails ==
  /\ upc = "open" /\ ~crashed
  /\ Raise("write")
  /\ UNCHANGED <<fs, penv, ukey, uval, ucreate, buf, crashed, orig>>
  /\ UNCHANGED extractVars
  /\ UNCHANGED pipeVars
  /\ UNCHANGED sideVars

\* second half: the content is written
WriteData ==
  /\ upc = "write" /\ ~crashed
  /\ fs' = [fs EXCEPT ![WritePath] = buf]
  /\ upc' = "rename"
  /\ UNCHANGED <<penv, ukey, uval, ucreate, buf, uresult, uerr, crashed, orig, calls>>
  /\ UNCHANGED extractVars
  /\ UNCHANGED pipeVars
  /\ UNCHANGED sideVars

\* the write fails after n lines (disk full, I/O error)
WriteDataFails ==
  /\ upc = "write" /\ ~crashed
  /\ \E n \in 1..Len(buf) - 1 : fs' = [fs EXCEPT ![WritePath] = SubSeq(buf, 1, n)]
  /\ Raise("write")
  /\ UNCHANGED <<penv, ukey, uval, ucreate, buf, crashed, orig>>
  /\ UNCHANGED extractVars
  /\ UNCHANGED pipeVars
  /\ UNCHANGED sideVars

\* fs.renameSync(tempPath, envPath)
Rename ==
  /\ upc = "rename" /\ ~crashed
  /\ IF fs.tmp # Missing
     THEN /\ fs' = [env |-> fs.tmp, tmp |-> Missing]
          /\ upc' = "setenv"
          /\ UNCHANGED <<uresult, uerr, calls>>
     ELSE Raise("rename") /\ UNCHANGED fs
  /\ UNCHANGED <<penv, ukey, uval, ucreate, buf, crashed, orig>>
  /\ UNCHANGED extractVars
  /\ UNCHANGED pipeVars
  /\ UNCHANGED sideVars

RenameFails ==
  /\ upc = "rename" /\ ~crashed
  /\ Raise("rename")
  /\ UNCHANGED <<fs, penv, ukey, uval, ucreate, buf, crashed, orig>>
  /\ UNCHANGED extractVars
  /\ UNCHANGED pipeVars
  /\ UNCHANGED sideVars

\* process.env[key] = value; return true
SetEnvAndReturn ==
  /\ upc = "setenv" /\ ~crashed
  /\ penv' = [penv EXCEPT ![ukey] = uval]
  /\ uresult' = "true"
  /\ upc' = "idle"
  /\ calls' = calls + 1
  /\ UNCHANGED <<fs, ukey, uval, ucreate, buf, uerr, crashed, orig>>
  /\ UNCHANGED extractVars
  /\ UNCHANGED pipeVars
  /\ UNCHANGED sideVars

\* catch (error) { logError(...); return false }
CatchAndReturn ==
  /\ upc = "caught" /\ ~crashed
  /\ uresult' = "false"
  /\ upc' = "idle"
  /\ calls' = calls + 1
  /\ UNCHANGED <<fs, penv, ukey, uval, ucreate, buf, uerr, crashed, orig>>
  /\ UNCHANGED extractVars
  /\ UNCHANGED pipeVars
  /\ UNCHANGED sideVars

\* The process is killed between two statements of the call.
Crash ==
  /\ upc \notin {"idle"} /\ ~crashed
  /\ crashed' = TRUE
  /\ UNCHANGED <<fs, penv, upc, ukey, uval, ucreate, buf, uresult, uerr, orig, calls>>
  /\ UNCHANGED extractVars
  /\ UNCHANGED pipeVars
  /\ UNCHANGED sideVars

\* The process is killed while writeFileSync is writing: part of the content
\* is on disk.
CrashInWrite ==
  /\ upc = "write" /\ ~crashed
  /\ \E n \in 1..Len(buf) - 1 : fs' = [fs EXCEPT ![WritePath] = SubSeq(buf, 1, n)]
  /\ crashed' = TRUE
  /\ UNCHANGED <<penv, upc, ukey, uval, ucreate, buf, uresult, uerr, orig, calls>>
  /\ UNCHANGED extractVars
  /\ UNCHANGED pipeVars
  /\ UNCHANGED sideVars

EnvNext ==
  \/ \E k \in CallKeys, v \in NewVals, c \in CreateOptions : Call(k, v, c)
  \/ ExistsCheck
  \/ ReadFile
  \/ ReadFileFails
  \/ SubstituteStep
  \/ WriteOpen
  \/ WriteOpenFails
  \/ WriteData
  \/ WriteDataFails
  \/ Rename
  \/ RenameFails
  \/ SetEnvAndReturn
  \/ CatchAndReturn
  \/ Crash
  \/ CrashInWrite

SpecEnv == EnvInit /\ [][EnvNext]_vars

\* ---- the claims about the environment store

\* The content the current call works on: the file, or the header of a new one.
OldContent == IF orig.fs.env = Missing THEN HeaderContent ELSE orig.fs.env

\* The complete new content of the current call.
NewContent == Substitute(OldContent, ukey, uval)

\* The lines of a content: the file's lines without the empty remainder a
\* final line feed leaves.
LinesOf(content) ==
  IF content = Missing THEN << >>
  ELSE IF content[Len(content)].kind = "blank"
  THEN SubSeq(content, 1, Len(content) - 1)
  ELSE content

\* The active definitions of key: the lines KEY=... and export KEY=...
ActiveDefs(content, key) ==
  {i \in 1..Len(content) : content[i].kind \in {"def", "exp"} /\ content[i].key = key}

Returned(r) == upc = "idle" /\ ~crashed /\ uresult = r

\* C2: after successful updateEnvFile calls, whatever file the run started
\* from, the file holds at most one active definition of each updated key.
C2_AtMostOneActiveDefinition ==
  (upc = "idle" /\ ~crashed) =>
     \A k \in Keys :
        penv[k] # Unset => Cardinality(ActiveDefs(fs.env, k)) <= 1

\* The old lines are kept, in order, and what follows them is one line
\* `export KEY=value`, after the header of a new file or the empty line an
\* empty file gets.
AppendedOnly(before, after, key, value) ==
  LET old == LinesOf(before)
      new == LinesOf(after)
      pad == IF before = Missing THEN << Comment >>
             ELSE IF before = << Blank >> THEN << Blank >>
             ELSE << >>
  IN  /\ after # Missing
      /\ after[Len(after)].kind = "blank"
      /\ new = old \o pad \o << Line("exp", key, value) >>

\* No line KEY=... and no line export KEY=...
NoDefinitionLine(content, key) == ActiveDefs(content, key) = {}

\* No bare `export` line that empty lines alone separate from an indented
\* KEY=... line.
NoSplitExport(content, key) ==
  ~ \E i, j \in 1..Len(content) :
       /\ i < j
       /\ content[i].kind = "kw"
       /\ content[j].kind \in {"def", "ind"}
       /\ content[j].key = key
       /\ \A k \in i + 1..j - 1 : content[k].kind = "blank"

\* C3 as stated: a key with no KEY= and no export KEY= line is appended at
\* the end and every existing line is kept.
C3_AsStated ==
  (Returned("true") /\ NoDefinitionLine(OldContent, ukey)) =>
     AppendedOnly(orig.fs.env, fs.env, ukey, uval)

\* C3 (amended): a successful updateEnvFile for a key that has no KEY= line,
\* no export KEY= line and no bare `export` line followed, after empty lines
\* only, by a KEY= line (indented or not) appends the one line
\* `export KEY=value` at the end of the file and keeps every existing line.
C3_AppendsNewKey ==
  (Returned("true") /\ NoDefinitionLine(OldContent, ukey)
                    /\ NoSplitExport(OldContent, ukey)) =>
     AppendedOnly(orig.fs.env, fs.env, ukey, uval)

\* A new key written to a file whose last line has no line feed and which
\* defines the other key.
C3_Witness ==
  /\ Returned("true")
  /\ orig.fs.env # Missing
  /\ NoDefinitionLine(OldContent, ukey) /\ NoSplitExport(OldContent, ukey)
  /\ ~EndsWithNewline(orig.fs.env)
  /\ \E i \in 1..Len(orig.fs.env) : orig.fs.env[i].kind = "def"
  /\ Len(fs.env) = Len(orig.fs.env) + 2

\* C4: the environment file holds its previous content until the rename, and
\* the complete new content after it: a failure or a crash before the rename
\* leaves the previous content, and no state shows a partly written file.
C4_AllOrNothing ==
  /\ fs.env \in {orig.fs.env, NewContent}
  /\ upc \in {"exists", "read", "subst", "open", "write", "rename", "caught"}
        => fs.env = orig.fs.env
  /\ uresult = "false" => fs.env = orig.fs.env

\* A crash between the complete write of the temp file and the rename.
C4_Witness ==
  /\ crashed
  /\ upc = "rename"
  /\ fs.tmp = buf
  /\ fs.tmp # orig.fs.env
  /\ orig.fs.env # Missing
  /\ fs.env = orig.fs.env

RECURSIVE ExtractLoopLastWins(_, _, _)
\* A loop that forgets to return at the first match.
ExtractLoopLastWins(i, text, acc) ==
  IF i > Len(addressPatterns) THEN acc
  ELSE LET m == Match(addressPatterns[i], text)
       IN  ExtractLoopLastWins(i + 1, text, IF m.found /\ m.addr # << >> THEN m ELSE acc)

RECURSIVE ExtractLoop(_, _, _)
\* for (const pattern of addressPatterns) { ... return match[1] } return null
ExtractLoop(i, text, acc) ==
  IF i > Len(addressPatterns) THEN acc
  ELSE LET m == Match(addressPatterns[i], text)
       IN  IF m.found /\ m.addr # << >> THEN m
           ELSE ExtractLoop(i + 1, text, acc)

extractAddressFromForgeOutput(text) == ExtractLoop(1, text, NotFound)

ExtractInit ==
  /\ output \in SeqsUpTo(Tokens, MaxLen) \cup OtherTexts
  /\ extracted = Pending
  /\ EnvIdle
  /\ PipeIdle

Extract ==
  /\ extracted = Pending
  /\ extracted' = extractAddressFromForgeOutput(output)
  /\ UNCHANGED output
  /\ UNCHANGED envVars
  /\ UNCHANGED pipeVars
  /\ UNCHANGED sideVars

SpecExtract == ExtractInit /\ [][Extract]_vars

\* C1: the result is the first capture group of the first pattern of the list
\* that matches the text, and not-found exactly when no pattern matches.
MatchingPatterns(text) ==
  {i \in 1..Len(addressPatterns) : Match(addressPatterns[i], text).found}

C1_FirstMatchingPattern ==
  extracted # Pending =>
     IF MatchingPatterns(output) = {}
     THEN extracted = NotFound
     ELSE /\ extracted.found
          /\ extracted.addr =
               Match(addressPatterns[Min(MatchingPatterns(output))], output).addr
          /\ extracted.addr # << >>

\* A text that two patterns match with different captures: the label pattern
\* wins over the later logs pattern and returns the longer run.
C1_Witness ==
  /\ extracted # Pending
  /\ Cardinality(MatchingPatterns(output)) >= 2
  /\ \E i \in MatchingPatterns(output) :
        Match(addressPatterns[i], output).addr # extracted.addr

\* ------------------------------------------------- the pipeline: deploy.js

\* config/validation.js: requiredEnvVars
CommonVars == {"SCRIPT_PATH", "PRIVATE_KEY", "RPC_URL", "CHAIN_ID",
               "ETHERSCAN_API_KEY", "ADMIN_ADDRESS"}

AutomationVars == {"AUTOMATION_REGISTRAR_ADDRESS", "LINK_TOKEN_ADDRESS",
                   "AUTOMATION_GAS_LIMIT", "AUTOMATION_LINK_AMOUNT",
                   "AUTOMATION_TRIGGER_TYPE"}

FunctionsVars == {"FUNCTIONS_ROUTER_ADDRESS", "FUNCTIONS_SUBSCRIPTION_ID"}

RequiredVars == CommonVars \cup AutomationVars \cup FunctionsVars

\* A validation that looks at the common variables only.
missingCommonVars(options) == missing \cap CommonVars

\* validateConfig(options): the missing variables it collects
missingVars(options) ==
  (missing \cap CommonVars)
    \cup (IF options.automation THEN missing \cap AutomationVars ELSE {})
    \cup (IF options.functions THEN missing \cap FunctionsVars ELSE {})

\* A load where the file's definitions win over the variables already set.
LoadEnvOverride(content, env) ==
  [k \in Keys |->
     LET at == {i \in 1..Len(content) :
                  content[i].kind \in {"def", "exp", "ind"} /\ content[i].key = k}
     IN  IF at = {} THEN env[k] ELSE content[Max(at)].val]

\* loadEnvFile(): dotenv.config sets the variables process.env does not set
\* yet from the file, the last definition of a key winning; it accepts the
\* export prefix and leading blanks.
LoadEnv(content, env) ==
  [k \in Keys |->
     LET at == {i \in 1..Len(content) :
                  content[i].kind \in {"def", "exp", "ind"} /\ content[i].key = k}
     IN  IF env[k] # Unset \/ at = {} THEN env[k] ELSE content[Max(at)].val]

\* updateEnvFile(key, value) with the default options, as one step: every
\* way the call can end, with the files it leaves.
UpdateOutcomes(f, key, value) ==
  LET old == IF f.env = Missing THEN HeaderContent ELSE f.env
      new == Substitute(old, key, value)
  IN  {[ok |-> TRUE, fs |-> [f EXCEPT ![WritePath] = Missing, !.env = new]]}
        \cup {[ok |-> FALSE, fs |-> f]}
        \cup {[ok |-> FALSE, fs |-> [f EXCEPT ![WritePath] = << Blank >>]]}
        \cup {[ok |-> FALSE, fs |-> [f EXCEPT ![WritePath] = SubSeq(new, 1, n)]] :
                n \in 1..Len(new)}

\* What the forge subprocess may print.
PipeTokens == {"CA", "DT", "NL", "A1", "H"}

PipeOutputs ==
  SeqsUpTo(PipeTokens, MaxOut)
    \cup { << "CA", "H", "NL", "CA", "A1" >>,
           << "DT", "A1", "NL", "CA", "H" >>,
           << "LOGS", "NL", "A1", "H" >>,
           << "DA", "H", "UX" >>,
           << "SV", "A1", "BT" >> }

\* What the secrets-upload subprocess may print: "W" is a word, "N7" and "N9"
\* are integers.
UploadOutputs == { << "W" >>, << "N7" >>, << "N7", "W", "N9" >> }

IntegerTokens == {"N1", "N7", "N9"}

\* "1"
DefaultVersion == << "N1" >>

\* numbers = output.match(/\b\d+\b/g); the last of them, or "1"
SecretsVersion(out) ==
  LET at == {i \in 1..Len(out) : out[i] \in IntegerTokens}
  IN  IF at = {} THEN DefaultVersion ELSE << out[Max(at)] >>

\* The forwarder the registration creates on chain.
ForwarderAddr == << "F1" >>

\* The environment files a pipeline run may start from.
PipeInitialFiles ==
  { Missing,
    << Line("exp", "CONTRACT_ADDRESS", OldVal), Blank >>,
    << Line("def", "CONTRACT_ADDRESS", OldVal),
       Line("def", "CONTRACT_ADDRESS", OldVal), Blank >> }

PipeInit ==
  /\ output = << >>
  /\ extracted = Pending
  /\ fs \in [env : PipeInitialFiles, tmp : {Missing}]
  /\ penv = LoadEnv(fs.env, [k \in Keys |-> Unset])
  /\ upc = "idle"
  /\ ukey = NoKey
  /\ uval = NoVal
  /\ ucreate = TRUE
  /\ buf = Missing
  /\ uresult = "none"
  /\ uerr = "none"
  /\ crashed = FALSE
  /\ orig = [fs |-> fs, penv |-> penv]
  /\ calls = 0
  /\ ppc = "validate"
  /\ opts \in [functions : BOOLEAN, automation : BOOLEAN]
  /\ missing \in {m \in SUBSET RequiredVars : Cardinality(m) <= MaxMissing}
  /\ exitCode = -1
  /\ cpc = "off"
  /\ cenv = [k \in Keys |-> Unset]
  /\ chain = NoChain
  /\ said = {}
  /\ uploadOut = << >>
  /\ errNames = {}
  /\ trace = << >>
  /\ failed = {}
  /\ SideIdle

\* catch (error) { console.error(...); process.exit(1) } of deploy()
ExitWith(code) == ppc' = "exited" /\ exitCode' = code

Started(step) == trace' = Append(trace, step)

Fails(step) == failed' = failed \cup {step}

\* The step after deployContract, and after the Functions steps.
AfterFunctions == IF opts.automation THEN "spawn" ELSE "summary"

\* Automation placed before the Functions steps.
AfterDeployAutomationFirst == IF opts.automation THEN "spawn" ELSE "upload"

AfterDeploy == IF opts.functions THEN "upload" ELSE AfterFunctions

\* validateConfig(options), then the SCRIPT_PATH check
Validate ==
  /\ ppc = "validate"
  /\ Started("validate")
  /\ IF missingVars(opts) # {} \/ "SCRIPT_PATH" \in missing
     THEN Fails("validate") /\ ExitWith(1) /\ errNames' = missingVars(opts)
     ELSE ppc' = "forge" /\ UNCHANGED <<failed, exitCode, errNames>>
  /\ UNCHANGED <<output, extracted, fs, penv, opts, missing, cpc, cenv, chain, said,
                 uploadOut>>
  /\ UNCHANGED storeLocals
  /\ UNCHANGED sideVars

\* A failure of the deploy subprocess that is not thrown.
ForgeRejectsAndContinues(out) ==
  /\ ppc = "forge"
  /\ Started("forge")
  /\ output' = out
  /\ Fails("forge")
  /\ ppc' = "extract"
  /\ UNCHANGED <<extracted, fs, penv, opts, missing, exitCode, cpc, cenv, chain, said,
                 uploadOut>>
  /\ UNCHANGED storeLocals
  /\ UNCHANGED errNames
  /\ UNCHANGED sideVars

\* deployContract: await executeCommand(`forge script ...`) resolves
ForgeResolves(out) ==
  /\ ppc = "forge"
  /\ Started("forge")
  /\ output' = out
  /\ ppc' = "extract"
  /\ UNCHANGED <<extracted, fs, penv, opts, missing, exitCode, cpc, cenv, chain, said,
                 uploadOut, failed>>
  /\ UNCHANGED storeLocals
  /\ UNCHANGED errNames
  /\ UNCHANGED sideVars

\* ... or rejects: the subprocess exited with another code than 0, whatever
\* it printed
ForgeRejects(out) ==
  /\ ppc = "forge"
  /\ Started("forge")
  /\ output' = out
  /\ Fails("forge")
  /\ ExitWith(1)
  /\ UNCHANGED <<extracted, fs, penv, opts, missing, cpc, cenv, chain, said, uploadOut>>
  /\ UNCHANGED storeLocals
  /\ UNCHANGED errNames
  /\ UNCHANGED sideVars

\* const contractAddress = extractAddressFromForgeOutput(deployOutput)
ExtractAddress ==
  /\ ppc = "extract"
  /\ Started("extract")
  /\ extracted' = extractAddressFromForgeOutput(output)
  /\ IF extracted'.found
     THEN ppc' = "persist" /\ UNCHANGED <<failed, exitCode>>
     ELSE Fails("extract") /\ ExitWith(1)
  /\ UNCHANGED <<output, fs, penv, opts, missing, cpc, cenv, chain, said, uploadOut>>
  /\ UNCHANGED storeLocals
  /\ UNCHANGED errNames
  /\ UNCHANGED sideVars

\* A deployContract that does not look at the result of updateEnvFile.
PersistIgnoresResult ==
  /\ ppc = "persist"
  /\ Started("persist")
  /\ \E r \in UpdateOutcomes(fs, "CONTRACT_ADDRESS", extracted.addr) :
        /\ fs' = r.fs
        /\ IF r.ok
           THEN /\ penv' = [penv EXCEPT !["CONTRACT_ADDRESS"] = extracted.addr]
                /\ UNCHANGED failed
           ELSE /\ Fails("persist")
                /\ UNCHANGED penv
  /\ ppc' = AfterDeploy
  /\ UNCHANGED <<output, extracted, opts, missing, exitCode, cpc, cenv, chain, said,
                 uploadOut>>
  /\ UNCHANGED storeLocals
  /\ UNCHANGED errNames
  /\ UNCHANGED sideVars

\* if (!updateEnvFile(envVarName, contractAddress)) throw ...; return
Persist ==
  /\ ppc = "persist"
  /\ Started("persist")
  /\ \E r \in UpdateOutcomes(fs, "CONTRACT_ADDRESS", extracted.addr) :
        /\ fs' = r.fs
        /\ IF r.ok
           THEN /\ penv' = [penv EXCEPT !["CONTRACT_ADDRESS"] = extracted.addr]
                /\ ppc' = AfterDeploy
                /\ UNCHANGED <<failed, exitCode>>
           ELSE /\ Fails("persist")
                /\ ExitWith(1)
                /\ UNCHANGED penv
  /\ UNCHANGED <<output, extracted, opts, missing, cpc, cenv, chain, said, uploadOut>>
  /\ UNCHANGED storeLocals
  /\ UNCHANGED errNames
  /\ UNCHANGED sideVars

\* setupFunctions: the upload resolves, the version is parsed and written;
\* a failed write throws into the catch block of setupFunctions
UploadResolves(out) ==
  /\ ppc = "upload"
  /\ Started("upload")
  /\ uploadOut' = out
  /\ \E r \in UpdateOutcomes(fs, "FUNCTIONS_SECRETS_VERSION", SecretsVersion(out)) :
        /\ fs' = r.fs
        /\ IF r.ok
           THEN /\ penv' = [penv EXCEPT !["FUNCTIONS_SECRETS_VERSION"] = SecretsVersion(out)]
                /\ ppc' = "cast"
                /\ UNCHANGED failed
           ELSE /\ Fails("version")
                /\ ppc' = "default"
                /\ UNCHANGED penv
  /\ UNCHANGED <<output, extracted, opts, missing, exitCode, cpc, cenv, chain, said>>
  /\ UNCHANGED storeLocals
  /\ UNCHANGED errNames
  /\ UNCHANGED sideVars

\* setupFunctions: the upload rejects
UploadRejects ==
  /\ ppc = "upload"
  /\ Started("upload")
  /\ Fails("upload")
  /\ ppc' = "default"
  /\ UNCHANGED <<output, extracted, fs, penv, opts, missing, exitCode, cpc, cenv, chain,
                 said, uploadOut>>
  /\ UNCHANGED storeLocals
  /\ UNCHANGED errNames
  /\ UNCHANGED sideVars

\* catch: updateEnvFile("FUNCTIONS_SECRETS_VERSION", "1"), throw if it fails
WriteDefaultVersion ==
  /\ ppc = "default"
  /\ Started("default")
  /\ \E r \in UpdateOutcomes(fs, "FUNCTIONS_SECRETS_VERSION", DefaultVersion) :
        /\ fs' = r.fs
        /\ IF r.ok
           THEN /\ penv' = [penv EXCEPT !["FUNCTIONS_SECRETS_VERSION"] = DefaultVersion]
                /\ ppc' = "cast"
                /\ UNCHANGED <<failed, exitCode>>
           ELSE /\ Fails("default")
                /\ ExitWith(1)
                /\ UNCHANGED penv
  /\ UNCHANGED <<output, extracted, opts, missing, cpc, cenv, chain, said, uploadOut>>
  /\ UNCHANGED storeLocals
  /\ UNCHANGED errNames
  /\ UNCHANGED sideVars

\* addFunctionsConsumer: cast send resolves with a success status marker
CastSucceeds ==
  /\ ppc = "cast"
  /\ Started("cast")
  /\ chain' = [chain EXCEPT !.consumer = extracted.addr]
  /\ ppc' = AfterFunctions
  /\ UNCHANGED <<output, extracted, fs, penv, opts, missing, exitCode, cpc, cenv, said,
                 uploadOut, failed>>
  /\ UNCHANGED storeLocals
  /\ UNCHANGED errNames
  /\ UNCHANGED sideVars

\* A failure of cast send that is logged and not thrown.
CastFailsAndContinues ==
  /\ ppc = "cast"
  /\ Started("cast")
  /\ Fails("cast")
  /\ ppc' = AfterFunctions
  /\ UNCHANGED <<output, extracted, fs, penv, opts, missing, exitCode, cpc, cenv, chain,
                 said, uploadOut>>
  /\ UNCHANGED storeLocals
  /\ UNCHANGED errNames
  /\ UNCHANGED sideVars

\* ... rejects, or resolves with an output that carries no success marker
CastFails ==
  /\ ppc = "cast"
  /\ Started("cast")
  /\ Fails("cast")
  /\ ExitWith(1)
  /\ UNCHANGED <<output, extracted, fs, penv, opts, missing, cpc, cenv, chain, said,
                 uploadOut>>
  /\ UNCHANGED storeLocals
  /\ UNCHANGED errNames
  /\ UNCHANGED sideVars

\* A registrar that is started and not awaited.
SpawnRegistrarNoAwait ==
  /\ ppc = "spawn"
  /\ Started("registrar")
  /\ cpc' = "registerTx"
  /\ cenv' = LoadEnv(fs.env, penv)
  /\ ppc' = "summary"
  /\ UNCHANGED <<output, extracted, fs, penv, opts, missing, exitCode, chain, said,
                 uploadOut, failed>>
  /\ UNCHANGED storeLocals
  /\ UNCHANGED errNames
  /\ UNCHANGED sideVars

\* registerAutomation: executeCommand(`node deploy/automation/registerAutomation.js`)
\* starts the child, which inherits process.env and loads the file
SpawnRegistrar ==
  /\ ppc = "spawn"
  /\ Started("registrar")
  /\ cpc' = "registerTx"
  /\ cenv' = LoadEnv(fs.env, penv)
  /\ ppc' = "await"
  /\ UNCHANGED <<output, extracted, fs, penv, opts, missing, exitCode, chain, said,
                 uploadOut, failed>>
  /\ UNCHANGED storeLocals
  /\ UNCHANGED errNames
  /\ UNCHANGED sideVars

\* The variables main of the registrar passes to transferAndRegisterUpkeep.
RegistrarVars == {"PRIVATE_KEY", "RPC_URL", "ADMIN_ADDRESS", "LINK_TOKEN_ADDRESS",
                  "AUTOMATION_LINK_AMOUNT", "AUTOMATION_GAS_LIMIT",
                  "AUTOMATION_REGISTRAR_ADDRESS", "AUTOMATION_TRIGGER_TYPE"}

\* child, transferAndRegisterUpkeep: the transaction is sent and confirmed
RegisterUpkeepSucceeds ==
  /\ cpc = "registerTx"
  /\ missing \cap RegistrarVars = {}
  /\ cenv["CONTRACT_ADDRESS"] # Unset
  /\ Started("registerTx")
  /\ chain' = [chain EXCEPT !.upkeep = cenv["CONTRACT_ADDRESS"], !.created = ForwarderAddr]
  /\ cpc' = "explorer"
  /\ UNCHANGED <<output, extracted, fs, penv, ppc, opts, missing, exitCode, cenv, said,
                 uploadOut, failed>>
  /\ UNCHANGED storeLocals
  /\ UNCHANGED errNames
  /\ UNCHANGED sideVars

\* child: it fails, txHash is null, process.exit(1); or the parameters cannot
\* be encoded and the rejection of main ends the process
RegisterUpkeepFails ==
  /\ cpc = "registerTx"
  /\ Started("registerTx")
  /\ Fails("registerTx")
  /\ cpc' = "exit1"
  /\ UNCHANGED <<output, extracted, fs, penv, ppc, opts, missing, exitCode, cenv, chain,
                 said, uploadOut>>
  /\ UNCHANGED storeLocals
  /\ UNCHANGED errNames
  /\ UNCHANGED sideVars

\* child, saveForwarderFromTx: the explorer answers with the created contract;
\* updateEnvFile is called and its result is not looked at
ExplorerFindsForwarder ==
  /\ cpc = "explorer"
  /\ "ETHERSCAN_API_KEY" \notin missing
  /\ Started("explorer")
  /\ \E r \in UpdateOutcomes(fs, "AUTOMATION_FORWARDER_ADDRESS", chain.created) :
        /\ fs' = r.fs
        /\ IF r.ok
           THEN /\ cenv' = [cenv EXCEPT !["AUTOMATION_FORWARDER_ADDRESS"] = chain.created]
                /\ UNCHANGED failed
           ELSE /\ Fails("saveForwarder")
                /\ UNCHANGED cenv
  /\ cpc' = "setForwarder"
  /\ UNCHANGED <<output, extracted, penv, ppc, opts, missing, exitCode, chain, said,
                 uploadOut>>
  /\ UNCHANGED storeLocals
  /\ UNCHANGED errNames
  /\ UNCHANGED sideVars

ExplorerFailures == {"no api key", "request error", "status not 1", "empty result",
                     "no create entry"}

\* An explorer failure that is logged and does not end the child.
ExplorerFailsAndContinues(why) ==
  /\ cpc = "explorer"
  /\ Fails("explorer")
  /\ cpc' = "setForwarder"
  /\ UNCHANGED <<output, extracted, fs, penv, ppc, opts, missing, exitCode, cenv, chain,
                 said, uploadOut, trace>>
  /\ UNCHANGED storeLocals
  /\ UNCHANGED errNames
  /\ UNCHANGED sideVars

\* child: no API key, so no request; or any other answer; process.exit(1)
ExplorerFails(why) ==
  /\ cpc = "explorer"
  /\ why = "no api key" <=> "ETHERSCAN_API_KEY" \in missing
  /\ IF why = "no api key" THEN UNCHANGED trace ELSE Started("explorer")
  /\ Fails("explorer")
  /\ cpc' = "exit1"
  /\ UNCHANGED <<output, extracted, fs, penv, ppc, opts, missing, exitCode, cenv, chain,
                 said, uploadOut>>
  /\ UNCHANGED storeLocals
  /\ UNCHANGED errNames
  /\ UNCHANGED sideVars

\* child, setForwarderAddress(UPKEEP_CONTRACT, forwarder, ...): sent and confirmed
SetForwarderSucceeds ==
  /\ cpc = "setForwarder"
  /\ Started("setForwarderTx")
  /\ chain' = [chain EXCEPT !.forwarder = chain.created,
                            !.target = cenv["CONTRACT_ADDRESS"]]
  /\ said' = said \cup {"Forwarder address set in contract!"}
  /\ cpc' = "exit0"
  /\ UNCHANGED <<output, extracted, fs, penv, ppc, opts, missing, exitCode, cenv,
                 uploadOut, failed>>
  /\ UNCHANGED storeLocals
  /\ UNCHANGED errNames
  /\ UNCHANGED sideVars

\* child: it throws; main catches, prints the error and returns
SetForwarderFails ==
  /\ cpc = "setForwarder"
  /\ Started("setForwarderTx")
  /\ Fails("setForwarderTx")
  /\ said' = said \cup {"Failed to set forwarder address in contract"}
  /\ cpc' = "exit0"
  /\ UNCHANGED <<output, extracted, fs, penv, ppc, opts, missing, exitCode, cenv, chain,
                 uploadOut>>
  /\ UNCHANGED storeLocals
  /\ UNCHANGED errNames
  /\ UNCHANGED sideVars

\* registerAutomation: the child has exited; executeCommand resolves on exit
\* code 0 and rejects otherwise
RegistrarExited ==
  /\ ppc = "await"
  /\ cpc \in {"exit0", "exit1"}
  /\ IF cpc = "exit1"
     THEN ExitWith(1) /\ UNCHANGED said
     ELSE /\ ppc' = "summary"
          /\ said' = said \cup
               {IF "Forwarder address set in contract!" \in said
                THEN "Automation setup completed successfully"
                ELSE "Automation setup completed but forwarder status unclear"}
          /\ UNCHANGED exitCode
  /\ UNCHANGED <<output, extracted, fs, penv, opts, missing, cpc, cenv, chain, uploadOut,
                 trace, failed>>
  /\ UNCHANGED storeLocals
  /\ UNCHANGED errNames
  /\ UNCHANGED sideVars

\* the deployment summary, process.exit(0)
Summary ==
  /\ ppc = "summary"
  /\ said' = said \cup {"Full deployment pipeline completed successfully!"}
                  \cup (IF opts.automation
                        THEN {"Chainlink Automation forwarder configured"} ELSE {})
  /\ ExitWith(0)
  /\ UNCHANGED <<output, extracted, fs, penv, opts, missing, cpc, cenv, chain, uploadOut,
                 trace, failed>>
  /\ UNCHANGED storeLocals
  /\ UNCHANGED errNames
  /\ UNCHANGED sideVars

Next ==
  \/ Validate
  \/ \E out \in PipeOutputs : ForgeResolves(out)
  \/ \E out \in PipeOutputs : ForgeRejects(out)
  \/ ExtractAddress
  \/ Persist
  \/ \E out \in UploadOutputs : UploadResolves(out)
  \/ UploadRejects
  \/ WriteDefaultVersion
  \/ CastSucceeds
  \/ CastFails
  \/ SpawnRegistrar
  \/ RegisterUpkeepSucceeds
  \/ RegisterUpkeepFails
  \/ ExplorerFindsForwarder
  \/ \E why \in ExplorerFailures : ExplorerFails(why)
  \/ SetForwarderSucceeds
  \/ SetForwarderFails
  \/ RegistrarExited
  \/ Summary

Spec == PipeInit /\ [][Next]_vars
\* ------------------------------------------------- the pipeline: claims

Steps == {trace[i] : i \in DOMAIN trace}

\* The steps of a run, in the order of the code.
StepOrder == << "validate", "forge", "extract", "persist", "upload", "default", "cast",
                "registrar", "registerTx", "explorer", "setForwarderTx" >>

Rank(order, step) == CHOOSE i \in DOMAIN order : order[i] = step

\* The place of each step of an order.
RankOf(order) == [s \in {order[k] : k \in DOMAIN order} |-> Rank(order, s)]

StepRank == RankOf(StepOrder)

\* The steps of the trace that an order ranks occur in that order, once each.
InOrder(rank) ==
  \A i, j \in DOMAIN trace :
     (i < j /\ trace[i] \in DOMAIN rank /\ trace[j] \in DOMAIN rank)
        => rank[trace[i]] < rank[trace[j]]

\* The steps C6 lists.
ListedSteps == {"validate", "forge", "extract", "persist", "upload", "cast",
                "registerTx", "explorer", "setForwarderTx"}

\* C6: the run ends with exit code 0 when every step it ran succeeded and
\* with exit code 1 when one of the listed steps failed.
C6_ExitCodeTellsFailure ==
  ppc = "exited" =>
     /\ exitCode \in {0, 1}
     /\ exitCode = 0 <=> failed \cap ListedSteps = {}

BothSelected == opts.functions /\ opts.automation

\* The Functions sequence was cut short by a failure.
FunctionsAborted == failed \cap {"default", "cast"} # {}

\* The automation sequence was cut short by a failure.
AutomationAborted == failed \cap {"registerTx", "explorer"} # {}

FunctionsRanAll == "cast" \in Steps /\ ~FunctionsAborted

AutomationRanAll == "setForwarderTx" \in Steps

\* C7 as stated: with both integrations selected, a failure in one registrar
\* leaves the other one running all of its steps.
C7_AsStated ==
  (ppc = "exited" /\ BothSelected) =>
     /\ FunctionsAborted => AutomationRanAll
     /\ AutomationAborted => FunctionsRanAll

\* C7 (amended): with both integrations selected the Functions sequence runs
\* first; a failure that cuts it short ends the whole run with exit code 1
\* before the automation registrar is started, so nothing is registered; the
\* automation registrar is started only after the Functions sequence ran all
\* of its steps, and a failure of the registrar ends the run with exit code 1
\* and leaves the consumer added.
C7_FailureAbortsRun ==
  BothSelected =>
     /\ FunctionsAborted =>
           /\ ppc = "exited" /\ exitCode = 1
           /\ "registrar" \notin Steps
           /\ cpc = "off"
           /\ chain.upkeep = NoVal /\ chain.forwarder = NoVal
     /\ "registrar" \in Steps =>
           /\ FunctionsRanAll
           /\ chain.consumer = extracted.addr
     /\ (AutomationAborted /\ ppc = "exited") =>
           /\ exitCode = 1
           /\ FunctionsRanAll
           /\ "setForwarderTx" \notin Steps

\* Both selected, cast send failed: the run is over and no upkeep exists.
C7_Witness ==
  /\ BothSelected
  /\ ppc = "exited"
  /\ "cast" \in failed
  /\ "upload" \notin failed
  /\ penv["CONTRACT_ADDRESS"] = extracted.addr
  /\ "registrar" \notin Steps

\* The order C8 states: automation before the consumer registration.
StatedOrder == << "forge", "extract", "persist", "registrar", "cast" >>

\* C8 as stated: deploy, extract, persist, automation registration, consumer
\* registration, in this order.
C8_AsStated == InOrder(RankOf(StatedOrder))

\* C8 (amended): the steps of a run occur in the order deploy subprocess,
\* address extraction, persisting the address, then (if selected) the
\* Functions steps -- secrets upload and registering the consumer -- and then
\* (if selected) the automation registration; each step is started at most
\* once, after the step before it has finished, and the parent only waits
\* while the registrar child runs.
C8_StepOrder ==
  /\ InOrder(StepRank)
  /\ "extract" \in Steps => "forge" \in Steps /\ "forge" \notin failed
  /\ "persist" \in Steps => "extract" \in Steps /\ extracted.found
  /\ "upload" \in Steps => opts.functions /\ "persist" \in Steps /\ "persist" \notin failed
  /\ "cast" \in Steps => "upload" \in Steps
  /\ "registrar" \in Steps =>
        /\ opts.automation
        /\ "persist" \in Steps /\ "persist" \notin failed
        /\ opts.functions => FunctionsRanAll
  /\ cpc \in {"registerTx", "explorer", "setForwarder"} => ppc = "await"
  /\ ppc \in {"forge", "extract", "persist", "upload", "default", "cast", "spawn"}
        => cpc = "off"

\* A whole run with both integrations: every step has been started.
C8_Witness ==
  /\ ppc = "exited"
  /\ exitCode = 0
  /\ BothSelected
  /\ {"forge", "extract", "persist", "upload", "cast", "registrar", "registerTx",
      "explorer", "setForwarderTx"} \subseteq Steps
  /\ failed = {}

\* deployContract is over: it returned or threw.
DeployOver == "forge" \in Steps /\ ppc \notin {"extract", "persist"}

DeployReturned == "persist" \in Steps /\ "persist" \notin failed

\* The values <addr> of the lines `Contract Address: <addr>` of a text.
ContractAddressLines(text) ==
  {Run(text, i + 1, HexClass) :
     i \in {k \in 1..Len(text) - 1 :
              /\ text[k] = "CA"
              /\ text[k + 1] \in HexClass
              /\ LET e == k + Len(Run(text, k + 1, HexClass))
                 IN  e = Len(text) \/ text[e + 1] = "NL"}}

\* Whatever follows the first `Contract Address: ` that hex characters follow.
FirstContractAddress(text) ==
  LET at == {k \in 1..Len(text) - 1 : text[k] = "CA" /\ text[k + 1] \in HexClass}
  IN  IF at = {} THEN << >> ELSE Run(text, Min(at) + 1, HexClass)

HasDefinition(content, key, value) ==
  /\ content # Missing
  /\ \E i \in 1..Len(content) :
        /\ content[i].kind \in {"def", "exp"}
        /\ content[i].key = key
        /\ content[i].val = value

\* C9 as stated: whenever the output of a subprocess that ended well holds a line
\* `Contract Address: <addr>`, deployContract writes CONTRACT_ADDRESS=<addr>
\* and returns <addr>.
C9_AsStated ==
  (DeployOver /\ "forge" \notin failed) =>
     \A a \in ContractAddressLines(output) :
        /\ DeployReturned
        /\ extracted.addr = a
        /\ HasDefinition(fs.env, "CONTRACT_ADDRESS", a)

\* C9 (amended): when the deploy subprocess exits with code 0 and its output
\* holds `Contract Address: ` followed by hex characters, deployContract takes
\* the characters that follow its first occurrence; it then either writes the
\* line `export CONTRACT_ADDRESS=<addr>` into the environment file, sets
\* process.env and returns exactly <addr>, or, when the write fails, throws
\* and leaves the environment file as it was.
C9_FirstContractAddressLine ==
  (DeployOver /\ "forge" \notin failed /\ FirstContractAddress(output) # << >>) =>
     /\ extracted.found
     /\ extracted.addr = FirstContractAddress(output)
     /\ DeployReturned \/ "persist" \in failed
     /\ DeployReturned =>
           /\ \E i \in 1..Len(fs.env) :
                 fs.env[i] = Line("exp", "CONTRACT_ADDRESS", extracted.addr)
           /\ penv["CONTRACT_ADDRESS"] = extracted.addr
     /\ "persist" \in failed =>
           /\ fs.env = orig.fs.env
           /\ penv = orig.penv
           /\ ppc = "exited" /\ exitCode = 1

\* Two `Contract Address: ` occurrences with different values: the first is
\* written over the old definition and returned.
C9_Witness ==
  /\ DeployOver
  /\ DeployReturned
  /\ Cardinality(ContractAddressLines(output)) = 2
  /\ extracted.addr = FirstContractAddress(output)
  /\ orig.fs.env # Missing
  /\ HasDefinition(fs.env, "CONTRACT_ADDRESS", extracted.addr)

\* The operations on the outside world.
ExternalSteps == {"forge", "upload", "cast", "registerTx", "explorer", "setForwarderTx"}

\* C10: every external operation is started at most once in a run, and a
\* failed one ends the process: nothing is started after it and the exit code
\* is 1.
C10_NoRetryFailureAborts ==
  /\ \A i, j \in DOMAIN trace :
        (trace[i] = trace[j] /\ trace[i] \in ExternalSteps) => i = j
  /\ \A s \in failed \cap ExternalSteps :
        /\ trace[Len(trace)] = s
        /\ ppc = "exited" => exitCode = 1
\* this.config.maxRetries: the default of both modules.  No method reads it.
maxRetries == 3

\* How often a step was started in this run.
Attempts(step) == Cardinality({i \in DOMAIN trace : trace[i] = step})

\* C11: an external operation whose failure is reported was attempted again
\* before: it was started more than once, and at most maxRetries times after
\* the first attempt.
C11_FailedOperationsRetry ==
  \A s \in failed \cap ExternalSteps :
     /\ Attempts(s) >= 2
     /\ Attempts(s) <= maxRetries + 1
\* ------------------------------------------------- executeCommand.js

ExitCodes == {0, 1, 2}

\* What the subprocess may have written to stderr.
StderrTexts == { << >>, << "W" >> }

\* resolve(value) or reject(value): only the first call settles a promise.
Settle(e, state, value) ==
  IF e.promise = "pending"
  THEN [e EXCEPT !.promise = state, !.value = value, !.settles = @ + 1]
  ELSE [e EXCEPT !.settles = @ + 1]

\* An error test that also takes output on stderr for a failure.
ExecErrorOrStderr(e) == e.how # "exit" \/ e.code # 0 \/ e.stderr # << >>

\* The error argument of the callback of exec: set when the subprocess could
\* not be run, was killed, or exited with another code than 0.
ExecError(e) == e.how # "exit" \/ e.code # 0

ExecInit ==
  /\ output = << >>
  /\ extracted = Pending
  /\ EnvIdle
  /\ PipeIdle

\* executeCommand(command): new Promise(...), exec(command, callback)
ExecuteCommand ==
  /\ ex.pc = "idle"
  /\ ex' = [ex EXCEPT !.pc = "running", !.promise = "pending"]
  /\ UNCHANGED <<got, sync>>
  /\ UNCHANGED <<extractVars, envVars, pipeVars>>

\* the subprocess runs to its end
SubprocessExits(code, out, err) ==
  /\ ex.pc = "running"
  /\ ex' = [ex EXCEPT !.pc = "callback", !.how = "exit", !.code = code,
                      !.stdout = out, !.stderr = err]
  /\ UNCHANGED <<got, sync>>
  /\ UNCHANGED <<extractVars, envVars, pipeVars>>

\* ... is killed by a signal, with what it had printed
SubprocessKilled(out, err) ==
  /\ ex.pc = "running"
  /\ ex' = [ex EXCEPT !.pc = "callback", !.how = "signal", !.stdout = out, !.stderr = err]
  /\ UNCHANGED <<got, sync>>
  /\ UNCHANGED <<extractVars, envVars, pipeVars>>

\* ... or cannot be started
SubprocessCannotRun ==
  /\ ex.pc = "running"
  /\ ex' = [ex EXCEPT !.pc = "callback", !.how = "spawn error"]
  /\ UNCHANGED <<got, sync>>
  /\ UNCHANGED <<extractVars, envVars, pipeVars>>

\* (error, stdout, stderr) => { if (error) { reject(error); return; } resolve(stdout) }
ExecCallback ==
  /\ ex.pc = "callback"
  /\ ex' = [(IF ExecError(ex)
             THEN Settle(ex, "rejected", << "Error", ex.how >>)
             ELSE Settle(ex, "resolved", ex.stdout))
            EXCEPT !.pc = "done"]
  /\ UNCHANGED <<got, sync>>
  /\ UNCHANGED <<extractVars, envVars, pipeVars>>

ExecNext ==
  \/ ExecuteCommand
  \/ \E code \in ExitCodes, out \in PipeOutputs, err \in StderrTexts :
        SubprocessExits(code, out, err)
  \/ \E out \in PipeOutputs, err \in StderrTexts : SubprocessKilled(out, err)
  \/ SubprocessCannotRun
  \/ ExecCallback

SpecExec == ExecInit /\ [][ExecNext]_vars

\* C12: the promise of executeCommand is settled exactly once, when the
\* subprocess is over: resolved with stdout when it exited with code 0,
\* whatever it wrote to stderr, and rejected with the error otherwise.
C12_SettlesOnce ==
  /\ ex.settles <= 1
  /\ ex.pc \in {"idle", "running", "callback"} => ex.settles = 0
  /\ ex.pc \in {"running", "callback"} => ex.promise = "pending"
  /\ ex.pc = "done" => ex.settles = 1 /\ ex.promise \in {"resolved", "rejected"}
  /\ ex.promise = "resolved" =>
        ex.how = "exit" /\ ex.code = 0 /\ ex.value = ex.stdout
  /\ ex.promise = "rejected" =>
        /\ ex.how # "exit" \/ ex.code # 0
        /\ ex.value = << "Error", ex.how >>
  /\ (ex.pc = "done" /\ ex.how = "exit" /\ ex.code = 0) => ex.promise = "resolved"

\* Exit code 0 with output on stderr: resolved with stdout.
C12_Witness ==
  /\ ex.pc = "done"
  /\ ex.promise = "resolved"
  /\ ex.stderr # << >>
  /\ ex.value # << >>
\* ------------------------------------------------- the pipeline: more claims

\* The variables a run with these options needs.
Needed ==
  CommonVars \cup (IF opts.automation THEN AutomationVars ELSE {})
             \cup (IF opts.functions THEN FunctionsVars ELSE {})

ShellVal == << "E" >>

OtherVals == { << "F1" >>, << "F2" >> }

\* undefined, or a default value
Defaults == { NoVal, << "D" >> }

\* The files a process may find when it starts.
LoadFiles ==
  { Missing,
    << Line("def", "CONTRACT_ADDRESS", OldVal), Blank >>,
    << Line("exp", "FUNCTIONS_SECRETS_VERSION", OldVal),
       Line("def", "CONTRACT_ADDRESS", OldVal), Blank >> }

\* What dotenv reads for a key in a file: the last definition, Unset if none.
FileValue(content, key) == LoadEnv(content, [k \in Keys |-> Unset])[key]

\* A read that parses the file.
getEnvVarFromFile(key, defaultValue) ==
  IF FileValue(fs.env, key) \in {Unset, NoVal} THEN defaultValue
  ELSE FileValue(fs.env, key)

\* return process.env[key] || defaultValue
getEnvVar(key, defaultValue) ==
  IF penv[key] \in {Unset, NoVal} THEN defaultValue ELSE penv[key]

LoadInit ==
  /\ output = << >>
  /\ extracted = Pending
  /\ fs \in [env : LoadFiles, tmp : {Missing}]
  /\ penv \in [Keys -> {Unset, ShellVal}]
  /\ upc = "idle"
  /\ ukey = NoKey
  /\ uval = NoVal
  /\ ucreate = TRUE
  /\ buf = Missing
  /\ uresult = "none"
  /\ uerr = "none"
  /\ crashed = FALSE
  /\ orig = [fs |-> fs, penv |-> penv]
  /\ calls = 0
  /\ PipeIdle

\* loadEnvFile(): dotenv.config({ path })
LoadEnvFile ==
  /\ calls < MaxCalls
  /\ calls' = calls + 1
  /\ penv' = LoadEnv(fs.env, penv)
  /\ sync' = [k \in Keys |-> IF penv'[k] # penv[k] THEN "load" ELSE sync[k]]
  /\ got' = NoGot
  /\ UNCHANGED <<fs, upc, ukey, uval, ucreate, buf, uresult, uerr, crashed, orig, ex>>
  /\ UNCHANGED <<extractVars, pipeVars>>

\* updateEnvFile(key, value) called by this process, as one step
UpdateEnv(k, v) ==
  /\ calls < MaxCalls
  /\ calls' = calls + 1
  /\ \E r \in UpdateOutcomes(fs, k, v) :
        /\ fs' = r.fs
        /\ IF r.ok
           THEN /\ penv' = [penv EXCEPT ![k] = v]
                /\ sync' = [sync EXCEPT ![k] = "update"]
           ELSE UNCHANGED <<penv, sync>>
  /\ got' = NoGot
  /\ UNCHANGED <<upc, ukey, uval, ucreate, buf, uresult, uerr, crashed, orig, ex>>
  /\ UNCHANGED <<extractVars, pipeVars>>

\* updateEnvFile(key, value) called by another process, the registrar child
\* for one: the file changes, process.env of this process does not
OtherProcessWrites(k, v) ==
  /\ calls < MaxCalls
  /\ calls' = calls + 1
  /\ v # penv[k]
  /\ fs' = [fs EXCEPT !.env = Substitute(IF fs.env = Missing THEN HeaderContent ELSE fs.env,
                                         k, v)]
  /\ sync' = [sync EXCEPT ![k] = "none"]
  /\ got' = NoGot
  /\ UNCHANGED <<penv, upc, ukey, uval, ucreate, buf, uresult, uerr, crashed, orig, ex>>
  /\ UNCHANGED <<extractVars, pipeVars>>

\* getEnvVar(key, defaultValue)
GetEnvVar(k, d) ==
  /\ got = NoGot
  /\ got' = [key |-> k, default |-> d, val |-> getEnvVar(k, d)]
  /\ UNCHANGED <<sync, ex>>
  /\ UNCHANGED <<extractVars, envVars, pipeVars>>

LoadNext ==
  \/ LoadEnvFile
  \/ \E k \in Keys, v \in NewVals : UpdateEnv(k, v)
  \/ \E k \in Keys, v \in OtherVals : OtherProcessWrites(k, v)
  \/ \E k \in Keys, d \in Defaults : GetEnvVar(k, d)

SpecLoad == LoadInit /\ [][LoadNext]_vars

\* C14 as stated: a read returns the value the file holds for the key only
\* when a load step brought that value into process.env.
C14_AsStated ==
  (got.key # NoKey /\ FileValue(fs.env, got.key) # Unset
                   /\ got.val = FileValue(fs.env, got.key))
     => sync[got.key] = "load"

\* C14 (amended): getEnvVar returns process.env[key], or the default when that
\* is unset or empty, and never looks at the file; the value the file holds
\* for a key is returned only after this process wrote it with updateEnvFile,
\* which also sets process.env[key], or after loadEnvFile brought it in; a
\* value another process wrote is not seen before a load.
C14_ReadsProcessEnv ==
  got.key # NoKey =>
     /\ got.val = IF penv[got.key] \in {Unset, NoVal} THEN got.default
                  ELSE penv[got.key]
     /\ (FileValue(fs.env, got.key) # Unset /\ got.val = FileValue(fs.env, got.key))
           => sync[got.key] \in {"load", "update"}
     /\ (sync[got.key] = "none" /\ FileValue(fs.env, got.key) \in OtherVals)
           => got.val # FileValue(fs.env, got.key)

\* A read right after updateEnvFile, with no load in between, returns the
\* value just written to the file.
C14_Witness ==
  /\ got.key # NoKey
  /\ sync[got.key] = "update"
  /\ got.val = FileValue(fs.env, got.key)
  /\ got.val \in NewVals
  /\ orig.penv[got.key] = Unset
\* ------------------------------------------------- the environment store: more claims

\* The line the call rewrites: the first export KEY=... line, else the first
\* KEY=... line.
RewrittenLine(content, key) ==
  LET ex1 == {i \in ActiveDefs(content, key) : content[i].kind = "exp"}
  IN  IF ex1 # {} THEN Min(ex1) ELSE Min(ActiveDefs(content, key))

\* One definition of the key has become `export KEY=value`, at its place; no
\* other line has changed.
ReplacedInPlace(before, after, key, value) ==
  /\ Len(after) = Len(before)
  /\ \E p \in ActiveDefs(before, key) :
        after = [before EXCEPT ![p] = Line("exp", key, value)]

\* The value of the last successful write of the key before this call, when
\* it is another value than this call writes.
EarlierValue == orig.penv[ukey] \notin {Unset, uval}

LastWriteWins ==
  /\ HasDefinition(fs.env, ukey, uval)
  /\ EarlierValue => ~HasDefinition(fs.env, ukey, orig.penv[ukey])

ChildRunning == cpc \in {"registerTx", "explorer", "setForwarder"}

\* The external operations awaited at this moment: the one of the parent, and
\* the one of the child when the parent awaits the registrar subprocess.
InFlight ==
  ({ppc} \cap {"forge", "upload", "cast"}) \cup
  ({cpc} \cap {"registerTx", "explorer", "setForwarder"})

\* The parent is at a statement that writes the environment file.
ParentWrites == ppc \in {"persist", "upload", "default"}

\* C16: at most one external operation is awaited at a time; while the
\* registrar child runs the parent only awaits it; every change of the
\* environment file is made either by the parent while no child runs or by
\* the child while the parent awaits it.
C16_SingleWriter ==
  /\ [](Cardinality(InFlight) <= 1)
  /\ [](ChildRunning => ppc = "await")
  /\ [][fs' # fs => \/ ParentWrites /\ ~ChildRunning
                    \/ cpc = "explorer" /\ ppc = "await" /\ ppc' = "await"]_vars

\* The child has written the forwarder address after the parent wrote the
\* contract address; the parent still awaits the child.
C16_Witness ==
  /\ cpc = "setForwarder"
  /\ ppc = "await"
  /\ HasDefinition(fs.env, "AUTOMATION_FORWARDER_ADDRESS", ForwarderAddr)
  /\ HasDefinition(fs.env, "CONTRACT_ADDRESS", extracted.addr)
  /\ penv["AUTOMATION_FORWARDER_ADDRESS"] = Unset
\* ------------------------------------------------- the extractor: validation

\* The pattern that gave the result: the first one of the list that matches.
UsedPattern == addressPatterns[Min(MatchingPatterns(output))]

\* Where the leftmost match of the pattern puts its capture group.
CaptureStart(p, text) ==
  GroupAt(p, text, Min({i \in 1..Len(text) : GroupAt(p, text, i) # 0}))

\* 0x followed by 40 hex digits, and nothing else.
WellFormed(addr) == addr = << "A1" >>

\* The address is in the environment file and in process.env.
Persisted(addr) ==
  /\ penv["CONTRACT_ADDRESS"] = addr
  /\ \E i \in 1..Len(fs.env) : fs.env[i] = Line("exp", "CONTRACT_ADDRESS", addr)

\* C17 as stated: a label pattern returns the run of characters of
\* [0-9a-fA-Fx] that follows the label, and deployContract persists it; the
\* two other patterns return a well-formed address.
C17_AsStated ==
  (extracted # Pending /\ extracted.found) =>
     LET p == UsedPattern
     IN  /\ p.kind = "label" =>
               /\ extracted.addr = Run(output, CaptureStart(p, output), HexClass)
               /\ extracted.addr # << >>
         /\ p.kind # "label" => WellFormed(extracted.addr)
         /\ DeployReturned => Persisted(extracted.addr)

\* C17 (amended): a label pattern returns, unchanged and whatever its length
\* or beginning, the longest run that follows the label of characters of
\* [0-9a-fA-Fx], and for the `deployed at:` patterns, which carry the i flag,
\* also of the upper-case X; deployContract persists this text as the contract
\* address when the write succeeds; the `== Logs ==` and `Start verifying
\* contract` patterns return 0x followed by 40 hex digits.
C17_NoValidation ==
  (extracted # Pending /\ extracted.found) =>
     LET p == UsedPattern
     IN  /\ p.kind = "label" =>
               /\ extracted.addr = Run(output, CaptureStart(p, output), p.class)
               /\ extracted.addr # << >>
         /\ p.kind # "label" => WellFormed(extracted.addr)
         /\ DeployReturned => Persisted(extracted.addr)
         /\ DeployOver => DeployReturned \/ "persist" \in failed

\* A text that is no address has been persisted as the contract address.
C17_Witness ==
  /\ DeployReturned
  /\ UsedPattern.kind = "label"
  /\ ~WellFormed(extracted.addr)
  /\ "UX" \in {extracted.addr[i] : i \in 1..Len(extracted.addr)}
  /\ Persisted(extracted.addr)
\* ------------------------------------------------- the pipeline: a failed deployment

RegistrarSteps == {"upload", "default", "cast", "registrar", "registerTx", "explorer",
                   "setForwarderTx"}

\* C18: when the deploy subprocess fails or no address is found in its
\* output, the run is over with exit code 1, the environment file and
\* process.env are as they were, and no registrar step has been started.
C18_FailedDeployChangesNothing ==
  (failed \cap {"forge", "extract"} # {}) =>
     /\ ppc = "exited" /\ exitCode = 1
     /\ fs = orig.fs
     /\ penv = orig.penv
     /\ Steps \cap RegistrarSteps = {}
     /\ "persist" \notin Steps
     /\ cpc = "off" /\ chain = NoChain

\* The subprocess ended well, with both integrations selected and a defined
\* address in the file, but its output holds no address.
C18_Witness ==
  /\ "extract" \in failed
  /\ output # << >>
  /\ BothSelected
  /\ fs.env # Missing
  /\ ppc = "exited"
\* ------------------------------------------------- registerAutomation.js run by itself

\* `node deploy/automation/registerAutomation.js`: main() after loadEnvFile()
ChildInit ==
  /\ output = << >>
  /\ extracted = Pending
  /\ fs \in [env : PipeInitialFiles, tmp : {Missing}]
  /\ penv = [k \in Keys |-> Unset]
  /\ upc = "idle"
  /\ ukey = NoKey
  /\ uval = NoVal
  /\ ucreate = TRUE
  /\ buf = Missing
  /\ uresult = "none"
  /\ uerr = "none"
  /\ crashed = FALSE
  /\ orig = [fs |-> fs, penv |-> penv]
  /\ calls = 0
  /\ ppc = "off"
  /\ opts = [functions |-> FALSE, automation |-> FALSE]
  /\ missing \in {m \in SUBSET RequiredVars : Cardinality(m) <= MaxMissing}
  /\ exitCode = -1
  /\ cpc = "registerTx"
  /\ cenv = LoadEnv(fs.env, penv)
  /\ chain = NoChain
  /\ said = {}
  /\ uploadOut = << >>
  /\ errNames = {}
  /\ trace = << >>
  /\ failed = {}
  /\ SideIdle

ChildNext ==
  \/ RegisterUpkeepSucceeds
  \/ RegisterUpkeepFails
  \/ ExplorerFindsForwarder
  \/ \E why \in ExplorerFailures : ExplorerFails(why)
  \/ SetForwarderSucceeds
  \/ SetForwarderFails

SpecChild == ChildInit /\ [][ChildNext]_vars

\* The values the file defines for AUTOMATION_FORWARDER_ADDRESS.
ForwarderInFile ==
  IF fs.env = Missing THEN {}
  ELSE {fs.env[i].val : i \in {j \in 1..Len(fs.env) :
                                 fs.env[j].key = "AUTOMATION_FORWARDER_ADDRESS"}}

\* C19: the explorer is asked only after the registration was confirmed, the
\* forwarder address is persisted only after the explorer returned it, the
\* setForwarderAddress transaction is sent only after the address was
\* persisted and with the persisted address, and its failure leaves the
\* persisted address in place.
C19_RegistrarOrder ==
  /\ "explorer" \in Steps =>
        "registerTx" \in Steps /\ "registerTx" \notin failed /\ chain.created # NoVal
  /\ ForwarderInFile # {} =>
        /\ "explorer" \in Steps /\ "explorer" \notin failed
        /\ ForwarderInFile = {chain.created}
  /\ "setForwarderTx" \in Steps =>
        /\ ForwarderInFile = {chain.created}
        /\ chain.forwarder \in {NoVal, chain.created}
  /\ "setForwarderTx" \in failed => ForwarderInFile = {chain.created}

\* C20: the forwarder address is written only after a confirmed registration
\* and an explorer answer that holds the created contract; after every other
\* outcome the child exits with code 1, the environment file is as it was and
\* no setForwarderAddress transaction has been sent.
C20_WritesOnlyAfterLookup ==
  /\ ForwarderInFile # {} =>
        /\ "registerTx" \in Steps /\ "registerTx" \notin failed
        /\ "explorer" \in Steps /\ "explorer" \notin failed
        /\ "ETHERSCAN_API_KEY" \notin missing
        /\ ForwarderInFile = {chain.created}
  /\ (failed \cap {"registerTx", "explorer"} # {}) =>
        /\ cpc = "exit1"
        /\ ForwarderInFile = {}
        /\ ppc = "off" => fs = orig.fs
        /\ cenv["AUTOMATION_FORWARDER_ADDRESS"] = Unset
        /\ "setForwarderTx" \notin Steps
        /\ chain.forwarder = NoVal
  /\ ("ETHERSCAN_API_KEY" \in missing /\ "registerTx" \notin failed
                                       /\ cpc \notin {"off", "registerTx", "explorer"})
        => "explorer" \in failed /\ "explorer" \notin Steps
  /\ cpc = "exit1" => failed \cap {"registerTx", "explorer"} # {}

\* The registration was confirmed, no API key is set: exit code 1, no write.
C20_Witness ==
  /\ cpc = "exit1"
  /\ "ETHERSCAN_API_KEY" \in missing
  /\ "registerTx" \in Steps
  /\ chain.upkeep # NoVal
  /\ fs.env # Missing
  /\ fs = orig.fs
\* ------------------------------------------------- setupFunctions: the version

\* The version setupFunctions is to record: "1" after a failed upload, the
\* last integer of the output (or "1") after a successful one.
VersionToRecord ==
  IF "upload" \in failed THEN DefaultVersion ELSE SecretsVersion(uploadOut)

\* setupFunctions returned: addFunctionsConsumer is next or has started.
SetupReturned == ppc = "cast" \/ "cast" \in Steps

\* C21: a failed upload does not end the run; when setupFunctions returns,
\* FUNCTIONS_SECRETS_VERSION is in the environment file and in process.env
\* with "1" after a failed upload and with the last integer of the output (or
\* "1") after a successful one; setupFunctions throws only when the write of
\* the version failed.
C21_SecretsVersionRecorded ==
  /\ "upload" \in failed => ppc # "exited" \/ "default" \in failed \/ SetupReturned
  /\ SetupReturned =>
        /\ HasDefinition(fs.env, "FUNCTIONS_SECRETS_VERSION", VersionToRecord)
        /\ penv["FUNCTIONS_SECRETS_VERSION"] = VersionToRecord
  /\ (opts.functions /\ ppc = "exited" /\ "persist" \in Steps
        /\ "persist" \notin failed /\ ~SetupReturned) => "default" \in failed
\* ------------------------------------------------- the summary of deploy()

\* The run ended with exit code 0 and the summary line of the automation.
ReportsForwarderConfigured ==
  /\ ppc = "exited"
  /\ exitCode = 0
  /\ opts.automation
  /\ "Chainlink Automation forwarder configured" \in said

\* C22: a run with the automation option that ends with exit code 0 and
\* reports `Chainlink Automation forwarder configured` has sent the
\* setForwarderAddress transaction and seen it confirmed: the deployed
\* contract holds the forwarder the registration created.
C22_ForwarderConfigured ==
  ReportsForwarderConfigured =>
     /\ "setForwarderTx" \in Steps
     /\ "setForwarderTx" \notin failed
     /\ chain.forwarder # NoVal
     /\ chain.forwarder = chain.created
     /\ chain.target = extracted.addr
\* ------------------------------------------------- updateEnvFile and process.env

\* C23: process.env[key] is set only after the temp file was written and
\* renamed; a call that returns false leaves process.env as it was; after a
\* call that returned true, process.env[key] is the value the file defines
\* for key.
C23_EnvMatchesFile ==
  /\ uresult = "running" => penv = orig.penv
  /\ Returned("true") =>
        /\ penv = [orig.penv EXCEPT ![ukey] = uval]
        /\ fs.env = NewContent /\ fs.tmp = Missing
  /\ Returned("false") => penv = orig.penv
  /\ Returned("true") => FileValue(fs.env, ukey) = penv[ukey]
\* ------------------------------------------------- the registrar's contract

\* C24: the registrar is started only after deployContract wrote the address
\* it extracted and updateEnvFile returned true; the CONTRACT_ADDRESS the
\* registrar reads is that address, and the upkeep it registers and the
\* contract it calls setForwarderAddress on are the contract this run
\* deployed, whatever CONTRACT_ADDRESS an earlier run left in the file.
C24_RegistrarUsesThisRun ==
  /\ cpc # "off" => "registrar" \in Steps
  /\ "registrar" \in Steps =>
        /\ DeployReturned
        /\ extracted.found
        /\ penv["CONTRACT_ADDRESS"] = extracted.addr
        /\ cenv["CONTRACT_ADDRESS"] = extracted.addr
  /\ chain.upkeep \in {NoVal, extracted.addr}
  /\ chain.target \in {NoVal, extracted.addr}
  /\ chain.target # NoVal => chain.upkeep = chain.target

\* The file still holds a definition an earlier run left, which a fresh load
\* of the file would read; the registrar worked on this run's contract.
C24_Witness ==
  /\ cpc = "exit0"
  /\ chain.upkeep = extracted.addr
  /\ chain.target = extracted.addr
  /\ extracted.addr # OldVal
  /\ orig.penv["CONTRACT_ADDRESS"] = OldVal
  /\ FileValue(fs.env, "CONTRACT_ADDRESS") = OldVal
\* ------------------------------------------------- what exit code 0 tells

\* The lines of a file that define a key, in their order.
KeyLines(content, key) ==
  IF content = Missing THEN << >>
  ELSE SelectSeq(content, LAMBDA l : l.kind \in {"def", "exp", "ind"} /\ l.key = key)

\* The file the run started from, as updateEnvFile would first read it.
StartContent == IF orig.fs.env = Missing THEN HeaderContent ELSE orig.fs.env

ExitedWith(code) == ppc = "exited" /\ exitCode = code

====
